---- MODULE Spec2Model ----
(***************************************************************************)
(* Offline/online reconciliation of the farmer-registration mobile client. *)
(*                                                                         *)
(*   mobile/src/services/database.js   the local SQLite store              *)
(*   mobile/src/services/sync.js       checkConnectivity,                  *)
(*                                     syncPendingFarmers, setupAutoSync   *)
(*   mobile/src/services/api.js        syncFarmers (the remote call)       *)
(*   mobile/src/screens/HomeScreen_backup.js                               *)
(*                                     handleSync and the three-step       *)
(*                                     registration form                   *)
(*                                                                         *)
(* Every `await` of an async function is a point where another callback of *)
(* the JavaScript event loop may run, so each action below is the code     *)
(* between two awaits.  The remote service, the network-state query, the   *)
(* clock and the user are the environment: their answers are drawn with \E.*)
(***************************************************************************)
EXTENDS Integers, Sequences, FiniteSets, TLC

\* ------------------------------------------------------------------ bounds
\* Date.now() takes the values 1..MaxClock; a temp_id is TEMP_<Date.now()>.
MaxClock == 2
\* Rows the farmers table can hold.
MaxFarmers == 2
\* Rows the land_parcels table and the crops table can hold.
MaxParcels == 1
MaxCrops == 1
\* The remote service hands out the permanent identifiers 1..NumPermIds.
NumPermIds == 2
\* Rows of table farmers in the stores the pending list is read from.
MaxStoreFarmers == 3
MaxRefreshes == 3
\* Rows of land_parcels and of crops in the stores a payload is built from.
MaxPayloadParcels == 3
MaxPayloadCrops == 2

\* ------------------------------------------------------------- value sets
\* SQL NULL / JavaScript null and undefined where a number is expected.
Null == -1

Procs == {"manual", "auto"}

TempIds == 1..MaxClock

PermIds == 1..NumPermIds

\* Values typed into the form.
Names == {"Mary"}

CropNames == {"maize"}

\* Values of a JavaScript boolean-or-undefined, as strings.
Truthy(v) == v = "true"

\* expo-network's NetworkState: isConnected and isInternetReachable.
NetworkStates ==
    [isConnected : {"true", "false"},
     isInternetReachable : {"true", "false", "undefined"}]

\* JavaScript's a && b: a when a is falsy, otherwise b.
JsAnd(a, b) == IF Truthy(a) THEN b ELSE a

\* sync.js:11-14, on a network state the query returned.
checkConnectivity(networkState) ==
    JsAnd(networkState.isConnected, networkState.isInternetReachable)

\* What `await checkConnectivity()` can produce: a value, or a rejection
\* when Network.getNetworkStateAsync() rejects.
ProbeOutcomes ==
    {"throws"} \cup {checkConnectivity(ns) : ns \in NetworkStates}

VARIABLES
    farmers,        \* rows of table farmers, in rowid order
    land_parcels,   \* rows of table land_parcels, in rowid order
    crops,          \* rows of table crops, in rowid order
    dbReplace,      \* TRUE: insertFarmer is the INSERT OR REPLACE revision
    now,            \* Date.now()
    step,           \* registration form: step (4 = success alert shown)
    tempId,         \* registration form: tempId state
    syncing,        \* HomeScreen state syncing
    pc,             \* per trigger: where its async function is suspended
    pendingFarmers, \* per trigger: the rows getPendingFarmers resolved to
    batch,          \* per trigger: farmersToSync
    k,              \* per trigger: index of the next outcome of result.results
    res,            \* per trigger: the value syncPendingFarmers returned
    got,            \* history: what the cycle has learnt: "unreachable" from
                    \*          the probe, "empty" or "nonempty" from
                    \*          getPendingFarmers
    calls,          \* history: syncFarmers calls made this cycle
    atCall,         \* history: table farmers when syncFarmers was called,
                    \*          kept while the call is outstanding
    wrote,          \* history: temp_ids this cycle has called UPDATE for
    rejected,       \* history: temp_ids this cycle got an error outcome for
    http,           \* the axios instance during one syncFarmers call
    missed          \* history: temp_ids stored by the registration form
                    \*          since this cycle read its pending list

vars == <<farmers, land_parcels, crops, dbReplace, now, step, tempId,
          syncing, pc, pendingFarmers, batch, k, res,
          got, calls, atCall, wrote, rejected, http, missed>>

storeVars == <<farmers, land_parcels, crops>>
formVars == <<step, tempId>>
homeVars == <<syncing>>
cycleVars == <<pc, pendingFarmers, batch, k, res, got, calls, atCall,
               wrote, rejected>>

\* The triggers whose cycle has read its pending list and not yet returned.
PastCollect == {p \in Procs : pc[p] \in {"prepare", "submit", "apply"}}

\* ------------------------------------------------------------ local store
\* A row inserted by insertFarmer: the columns the statement does not name
\* take their defaults (farmer_id NULL, sync_status 'pending').
NewFarmerRow(farmerData) ==
    [temp_id |-> farmerData.temp_id,
     farmer_id |-> Null,
     sync_status |-> "pending",
     first_name |-> farmerData.first_name]

HasTempId(fs, t) == \E i \in DOMAIN fs : fs[i].temp_id = t

\* database.js:87-118: plain INSERT; temp_id is UNIQUE, so a second row
\* with the same temp_id is rejected and the table is unchanged.
insertFarmerOk(fs, farmerData) == ~HasTempId(fs, farmerData.temp_id)

insertFarmer(fs, farmerData) ==
    IF insertFarmerOk(fs, farmerData)
    THEN Append(fs, NewFarmerRow(farmerData))
    ELSE fs

\* The other revision of database.js: INSERT OR REPLACE deletes the row
\* holding the same temp_id and inserts the new one with a new rowid.
insertFarmerOrReplace(fs, farmerData) ==
    Append(SelectSeq(fs, LAMBDA r : r.temp_id # farmerData.temp_id),
           NewFarmerRow(farmerData))

\* getPendingFarmers with ORDER BY id DESC: the newest row first.
getPendingFarmers_NewestFirst(fs) ==
    LET l == SelectSeq(fs, LAMBDA r : r.sync_status = "pending")
    IN  [j \in DOMAIN l |-> l[Len(l) + 1 - j]]

\* getPendingFarmers without the WHERE clause: every row of the table.
getPendingFarmers_All(fs) == fs

\* database.js:121-132
getPendingFarmers(fs) == SelectSeq(fs, LAMBDA r : r.sync_status = "pending")

\* updateSyncStatus without the WHERE clause: every row is updated.
updateSyncStatus_NoWhere(fs, t, status, farmerId) ==
    [i \in DOMAIN fs |->
        [fs[i] EXCEPT !.sync_status = status, !.farmer_id = farmerId]]

\* database.js:149-160: an unconditional UPDATE of the row(s) with temp_id.
updateSyncStatus(fs, t, status, farmerId) ==
    [i \in DOMAIN fs |->
        IF fs[i].temp_id = t
        THEN [fs[i] EXCEPT !.sync_status = status, !.farmer_id = farmerId]
        ELSE fs[i]]

\* database.js:163-186: no check that the parent exists (SQLite enforces
\* FOREIGN KEY clauses only after PRAGMA foreign_keys = ON, never issued).
insertLandParcel(ps, tempFarmerId, parcelData) ==
    Append(ps, [temp_farmer_id |-> tempFarmerId,
                parcel_id |-> parcelData.parcel_id])

\* database.js:189-214
insertCrop(cs, tempFarmerId, cropData) ==
    Append(cs, [temp_farmer_id |-> tempFarmerId,
                crop_name |-> cropData.crop_name])

\* getLandParcels without the WHERE clause: every parcel of the table.
getLandParcels_NoFilter(ps, t) == ps

\* database.js:217-228
getLandParcels(ps, t) == SelectSeq(ps, LAMBDA r : r.temp_farmer_id = t)

\* database.js:231-242
getCrops(cs, t) == SelectSeq(cs, LAMBDA r : r.temp_farmer_id = t)

CountRows(fs, status) ==
    Cardinality({i \in DOMAIN fs : fs[i].sync_status = status})

\* database.js:245-260: SUM over no rows is NULL.
getAllFarmersWithStats(fs) ==
    [total |-> Len(fs),
     pending |-> IF Len(fs) = 0 THEN Null ELSE CountRows(fs, "pending"),
     synced |-> IF Len(fs) = 0 THEN Null ELSE CountRows(fs, "synced")]

\* Row of the farmers table with temp_id t (the table holds at most one).
RowOf(fs, t) == fs[CHOOSE i \in DOMAIN fs : fs[i].temp_id = t]

IsSynced(fs, t) == HasTempId(fs, t) /\ RowOf(fs, t).sync_status = "synced"

HasPermId(fs, t) == HasTempId(fs, t) /\ RowOf(fs, t).farmer_id # Null

\* ------------------------------------------------------------ sync engine
\* sync.js:64-74: landParcels.map(...)
ParcelPayloads(landParcels) ==
    [i \in DOMAIN landParcels |-> [parcel_id |-> landParcels[i].parcel_id]]

\* sync.js:75-84: crops.map(...)
CropPayloads(cropRows) ==
    [i \in DOMAIN cropRows |-> [crop_name |-> cropRows[i].crop_name]]

\* sync.js:38-87: the payload entry of one pending farmer.
FarmerPayload(farmer, ps, cs) ==
    [temp_id |-> farmer.temp_id,
     first_name |-> farmer.first_name,
     land_parcels |-> ParcelPayloads(getLandParcels(ps, farmer.temp_id)),
     current_crops |-> CropPayloads(getCrops(cs, farmer.temp_id))]

NoResult == [success |-> FALSE, message |-> "none", synced |-> Null]

\* sync.js:28-34
EmptyResult == [success |-> TRUE, message |-> "No farmers to sync", synced |-> 0]

\* sync.js:104-110: errors is the response's own errors field.
SuccessResult(result) ==
    [success |-> TRUE, message |-> "Synced", synced |-> result.successful,
     failed |-> result.failed, errors |-> result.errors]

\* sync.js:112-119
CatchResult(message) == [success |-> FALSE, message |-> message, synced |-> 0]

\* The remote service is a black box.  It answers a batch with one outcome
\* per submitted entry, in order, and with aggregate counts of its own.
OutcomesFor(entry) ==
    [temp_id : {entry.temp_id}, status : {"created", "updated"},
     farmer_id : PermIds \cup {Null}]
    \cup {[temp_id |-> entry.temp_id, status |-> "error", farmer_id |-> Null]}

\* The errors field of a response.  The response of the remote service is
\* the list of outcomes plus the aggregate counts: it carries no errors
\* field, so result.errors is undefined.  (The message of the error outcome
\* of record t is identified with t; a list of messages is a set of them.)
ErrorListsFor(b) == {Null}

\* The aggregate counts of a response: the remote's own numbers, with
\* successful + failed = the number of entries it was sent.
AggregatesFor(b) ==
    {[successful |-> n, failed |-> Len(b) - n, errors |-> e] :
        n \in 0..Len(b), e \in ErrorListsFor(b)}

\* ------------------------------------------------------------ HTTP client
\* The axios instance of api.js while it serves one syncFarmers call.
\*   guard:    TRUE for the response interceptor of api.js:278-302 (with the
\*             _retry flag), FALSE for the one of api.js:35-48 (without it)
\*   stack:    the requests awaiting a response, the innermost last; each
\*             but the first is the POST /api/auth/refresh that the
\*             interceptor of the request below it is awaiting
\*   state:    "idle", "waiting", "resolved" or "rejected"
\*   token:    SecureStore holds a refresh_token
\*   refreshes, replays: requests to /api/auth/refresh sent, and requests
\*             sent again by api.request(originalRequest), during the call
HttpIdle ==
    [guard |-> TRUE, stack |-> <<>>, state |-> "idle", token |-> TRUE,
     refreshes |-> 0, replays |-> 0]

\* What the remote, or the network, makes of one request: a 2xx response,
\* a 401 response, or any other failure (timeout, no connection, 5xx).
HttpAnswers == {"ok", "unauthorized", "error"}

\* api.js:411-414: api.post("/api/sync/batch", ...)
BatchRequest == [url |-> "/api/sync/batch", _retry |-> FALSE]

\* api.js:355-357: api.post("/api/auth/refresh", ...), a new request config.
RefreshRequest == [url |-> "/api/auth/refresh", _retry |-> FALSE]

\* api.js:281-285 (and 38): the condition under which the response
\* interceptor handles a 401 by refreshing.  No url here is /auth/login.
InterceptorRefreshes(h, request) ==
    IF h.guard THEN ~request._retry ELSE TRUE

\* A request rejects.  The rejection of a refresh request is caught in
\* refreshAccessToken (api.js:364-367), which returns null; the interceptor
\* awaiting it logs out (api.js:295-296, 68-71) and rejects its own request
\* (api.js:299), and so on down to the syncFarmers request.
HttpReject(h) ==
    [h EXCEPT !.stack = <<>>, !.state = "rejected",
              !.token = IF Len(h.stack) > 1 THEN FALSE ELSE @]

\* api.js:278-302 (35-48), 351-368: the response interceptor on the answer
\* to the innermost request.
HttpRespond(h, answer) ==
    LET n == Len(h.stack)
        request == h.stack[n]
    IN  IF answer = "ok"
        THEN IF n = 1
             THEN [h EXCEPT !.stack = <<>>, !.state = "resolved"]
             ELSE \* refreshAccessToken returns the new token: the request
                  \* below is sent again (api.js:289-292)
                  [h EXCEPT !.stack = SubSeq(h.stack, 1, n - 1),
                            !.replays = @ + 1]
        ELSE IF answer = "unauthorized" /\ InterceptorRefreshes(h, request)
        THEN IF h.token
             THEN [h EXCEPT !.stack = Append([h.stack EXCEPT ![n]._retry = h.guard],
                                             RefreshRequest),
                            !.refreshes = @ + 1]
             ELSE \* no refresh_token: refreshAccessToken returns null
                  [HttpReject(h) EXCEPT !.token = FALSE]
        ELSE HttpReject(h)

TypeOK ==
    /\ dbReplace \in BOOLEAN
    /\ now \in 1..MaxClock
    /\ step \in 1..4
    /\ tempId \in TempIds \cup {Null}
    /\ syncing \in BOOLEAN
    /\ pc \in [Procs -> {"idle", "tick", "check", "collect", "prepare",
                         "submit", "apply", "done"}]
    /\ Len(farmers) <= MaxFarmers
    /\ \A i \in DOMAIN farmers :
          /\ farmers[i].temp_id \in TempIds
          /\ farmers[i].farmer_id \in PermIds \cup {Null}
          /\ farmers[i].sync_status \in {"pending", "synced", "failed"}
    /\ \A p \in Procs :
          /\ k[p] \in 0..MaxFarmers
          /\ calls[p] \in 0..1
          /\ Len(atCall[p]) <= MaxFarmers
          /\ wrote[p] \subseteq TempIds
          /\ rejected[p] \subseteq TempIds

Init ==
    /\ farmers = <<>>
    /\ land_parcels = <<>>
    /\ crops = <<>>
    /\ dbReplace \in BOOLEAN
    /\ now = 1
    /\ step = 1
    /\ tempId = Null
    /\ syncing = FALSE
    /\ pc = [p \in Procs |-> "idle"]
    /\ pendingFarmers = [p \in Procs |-> <<>>]
    /\ batch = [p \in Procs |-> <<>>]
    /\ k = [p \in Procs |-> 0]
    /\ res = [p \in Procs |-> NoResult]
    /\ got = [p \in Procs |-> "none"]
    /\ calls = [p \in Procs |-> 0]
    /\ atCall = [p \in Procs |-> <<>>]
    /\ wrote = [p \in Procs |-> {}]
    /\ rejected = [p \in Procs |-> {}]
    /\ http = HttpIdle
    /\ missed = [p \in Procs |-> {}]

\* ------------------------------------------------------------ environment
\* The clock advances.
clockTick ==
    /\ now < MaxClock
    /\ now' = now + 1
    /\ UNCHANGED <<storeVars, dbReplace, http, formVars, homeVars, cycleVars,
                   missed>>

\* ------------------------------------------------------ registration form
\* HomeScreen_backup.js:342-363
handlePersonalInfoSubmit ==
    /\ step = 1
    /\ HasTempId(farmers, now) \/ Len(farmers) < MaxFarmers
    /\ \E name \in Names :
          LET tempFarmerId == now
              farmerData == [temp_id |-> tempFarmerId, first_name |-> name]
              stored == dbReplace \/ insertFarmerOk(farmers, farmerData)
          IN  /\ tempId' = tempFarmerId
              /\ IF dbReplace
                 THEN /\ farmers' = insertFarmerOrReplace(farmers, farmerData)
                      /\ step' = 2
                 ELSE /\ farmers' = insertFarmer(farmers, farmerData)
                      /\ step' = IF insertFarmerOk(farmers, farmerData)
                                 THEN 2 ELSE 1
              /\ missed' = [p \in Procs |->
                               IF stored /\ p \in PastCollect
                               THEN missed[p] \cup {tempFarmerId}
                               ELSE missed[p]]
    /\ UNCHANGED <<land_parcels, crops, dbReplace, http, now, homeVars,
                   cycleVars>>

\* HomeScreen_backup.js:365-380
handleLandDetailsSubmit ==
    /\ step = 2
    /\ Len(land_parcels) < MaxParcels
    /\ land_parcels' = insertLandParcel(land_parcels, tempId,
                                        [parcel_id |-> now])
    /\ step' = 3
    /\ UNCHANGED <<farmers, crops, dbReplace, http, now, tempId, homeVars,
                   cycleVars, missed>>

\* HomeScreen_backup.js:382-402
handleCropDetailsSubmit ==
    /\ step = 3
    /\ Len(crops) < MaxCrops
    /\ \E c \in CropNames :
          crops' = insertCrop(crops, tempId, [crop_name |-> c])
    /\ step' = 4
    /\ UNCHANGED <<farmers, land_parcels, dbReplace, http, now, tempId,
                   homeVars, cycleVars, missed>>

\* The user leaves the form (the alert's OK button, or back); the screen is
\* mounted afresh on the next visit.
leaveRegistration ==
    /\ step > 1
    /\ step' = 1
    /\ tempId' = Null
    /\ UNCHANGED <<storeVars, dbReplace, http, now, homeVars, cycleVars,
                   missed>>

\* ------------------------------------------------------------- sync cycle
\* syncPendingFarmers returns r (sync.js:29, 104 or 114); its locals die.
Return(p, r) ==
    /\ pc' = [pc EXCEPT ![p] = "done"]
    /\ res' = [res EXCEPT ![p] = r]
    /\ pendingFarmers' = [pendingFarmers EXCEPT ![p] = <<>>]
    /\ batch' = [batch EXCEPT ![p] = <<>>]
    /\ k' = [k EXCEPT ![p] = 0]
    /\ missed' = [missed EXCEPT ![p] = {}]

\* The function goes on to its next await.
Goto(p, label) ==
    /\ pc' = [pc EXCEPT ![p] = label]
    /\ UNCHANGED <<res, missed>>

\* HomeScreen_backup.js:43-56: the Sync button (disabled while syncing)
\* up to the first await inside syncPendingFarmers.  isOnline and
\* stats.pending are what checkConnection and loadStats stored at some
\* earlier time: the values they hold now are the environment's.
handleSync ==
    /\ pc["manual"] = "idle"
    /\ ~syncing
    /\ \E isOnline \in ProbeOutcomes \ {"throws"},
          pending \in {Null} \cup (0..MaxFarmers) :
          /\ Truthy(isOnline)
          /\ pending # 0
    /\ syncing' = TRUE
    /\ pc' = [pc EXCEPT !["manual"] = "check"]
    /\ UNCHANGED <<storeVars, dbReplace, http, now, formVars, pendingFarmers,
                   batch, k, res, got, calls, atCall, wrote, missed,
                   rejected>>

\* sync.js:123-125: a timer tick of setupAutoSync starts its callback.
autoSyncTick ==
    /\ pc["auto"] = "idle"
    /\ pc' = [pc EXCEPT !["auto"] = "tick"]
    /\ UNCHANGED <<storeVars, dbReplace, http, now, formVars, homeVars,
                   pendingFarmers, batch, k, res, got, calls, atCall, wrote,
                   missed, rejected>>

\* sync.js:125-128: the callback's own connectivity check.
autoSyncProbe ==
    /\ pc["auto"] = "tick"
    /\ \E isConnected \in ProbeOutcomes :
          pc' = [pc EXCEPT !["auto"] =
                    IF Truthy(isConnected) THEN "check" ELSE "idle"]
    /\ UNCHANGED <<storeVars, dbReplace, http, now, formVars, homeVars,
                   pendingFarmers, batch, k, res, got, calls, atCall, wrote,
                   missed, rejected>>

\* cycleCheck without the throw of sync.js:21-23: the cycle goes on to read
\* the pending list whatever the probe answered.
cycleCheck_IgnoresProbe(p) ==
    /\ pc[p] = "check"
    /\ \E isConnected \in ProbeOutcomes :
          IF isConnected = "throws"
          THEN /\ Return(p, CatchResult("network state error"))
               /\ UNCHANGED got
          ELSE /\ got' = [got EXCEPT ![p] =
                             IF Truthy(isConnected) THEN @ ELSE "unreachable"]
               /\ Goto(p, "collect")
               /\ UNCHANGED <<pendingFarmers, batch, k>>
    /\ UNCHANGED <<storeVars, dbReplace, http, now, formVars, homeVars, calls,
                   atCall, wrote, rejected>>

\* sync.js:19-23 and the catch of 112-119.
cycleCheck(p) ==
    /\ pc[p] = "check"
    /\ \E isConnected \in ProbeOutcomes :
          IF isConnected = "throws"
          THEN /\ Return(p, CatchResult("network state error"))
               /\ UNCHANGED got
          ELSE IF ~Truthy(isConnected)
          THEN /\ got' = [got EXCEPT ![p] = "unreachable"]
               /\ Return(p, CatchResult("No internet connection"))
          ELSE /\ Goto(p, "collect")
               /\ UNCHANGED <<pendingFarmers, batch, k, got>>
    /\ UNCHANGED <<storeVars, dbReplace, http, now, formVars, homeVars, calls,
                   atCall, wrote, rejected>>

\* cycleCollect without the early return of sync.js:28-34: an empty pending
\* list goes on to be submitted.
cycleCollect_NoShortCircuit(p) ==
    /\ pc[p] = "collect"
    /\ \E dbOk \in BOOLEAN :
          IF ~dbOk
          THEN /\ Return(p, CatchResult("database error"))
               /\ UNCHANGED got
          ELSE LET rows == getPendingFarmers(farmers)
               IN  /\ got' = [got EXCEPT ![p] =
                                 IF Len(rows) = 0 THEN "empty" ELSE "nonempty"]
                   /\ pendingFarmers' = [pendingFarmers EXCEPT ![p] = rows]
                   /\ Goto(p, "prepare")
                   /\ UNCHANGED <<batch, k>>
    /\ UNCHANGED <<storeVars, dbReplace, http, now, formVars, homeVars, calls,
                   atCall, wrote, rejected>>

\* sync.js:25-34
cycleCollect(p) ==
    /\ pc[p] = "collect"
    /\ \E dbOk \in BOOLEAN :
          IF ~dbOk
          THEN /\ Return(p, CatchResult("database error"))
               /\ UNCHANGED got
          ELSE LET rows == getPendingFarmers(farmers)
               IN  IF Len(rows) = 0
                   THEN /\ got' = [got EXCEPT ![p] = "empty"]
                        /\ Return(p, EmptyResult)
                   ELSE /\ got' = [got EXCEPT ![p] = "nonempty"]
                        /\ pendingFarmers' = [pendingFarmers EXCEPT ![p] = rows]
                        /\ Goto(p, "prepare")
                        /\ UNCHANGED <<batch, k>>
    /\ UNCHANGED <<storeVars, dbReplace, http, now, formVars, homeVars, calls,
                   atCall, wrote, rejected>>

\* cyclePrepare submitting one record per call: the payload handed to
\* syncFarmers holds the first pending farmer only.
cyclePrepare_FirstOnly(p) ==
    /\ pc[p] = "prepare"
    /\ batch' = [batch EXCEPT ![p] =
                    <<FarmerPayload(pendingFarmers[p][1], land_parcels, crops)>>]
    /\ pendingFarmers' = [pendingFarmers EXCEPT ![p] = <<>>]
    /\ calls' = [calls EXCEPT ![p] = @ + 1]
    /\ atCall' = [atCall EXCEPT ![p] = farmers]
    /\ Goto(p, "submit")
    /\ UNCHANGED <<storeVars, dbReplace, http, now, formVars, homeVars, k,
                   got, wrote, rejected>>

\* sync.js:36-91: build farmersToSync and call syncFarmers; a rejected
\* getLandParcels or getCrops is caught at 112-119.
cyclePrepare(p) ==
    /\ pc[p] = "prepare"
    /\ \E dbOk \in BOOLEAN :
          IF ~dbOk
          THEN /\ Return(p, CatchResult("database error"))
               /\ UNCHANGED <<calls, atCall>>
          ELSE /\ batch' = [batch EXCEPT ![p] =
                     [i \in DOMAIN pendingFarmers[p] |->
                        FarmerPayload(pendingFarmers[p][i],
                                      land_parcels, crops)]]
               /\ pendingFarmers' = [pendingFarmers EXCEPT ![p] = <<>>]
               /\ calls' = [calls EXCEPT ![p] = @ + 1]
               /\ atCall' = [atCall EXCEPT ![p] = farmers]
               /\ Goto(p, "submit")
               /\ UNCHANGED k
    /\ UNCHANGED <<storeVars, dbReplace, http, now, formVars, homeVars, got,
                   wrote, rejected>>

\* sync.js:91: syncFarmers resolves.  The outcomes of result.results and
\* result.successful are drawn where the code reads them.
cycleSubmitOk(p) ==
    /\ pc[p] = "submit"
    /\ k' = [k EXCEPT ![p] = 1]
    /\ atCall' = [atCall EXCEPT ![p] = <<>>]
    /\ Goto(p, "apply")
    /\ UNCHANGED <<storeVars, dbReplace, http, now, formVars, homeVars,
                   pendingFarmers, batch, got, calls, wrote,
                   rejected>>

\* cycleSubmitFail without the catch of sync.js:112-119: the rejection of
\* syncFarmers leaves syncPendingFarmers as an exception and no result is
\* returned.
cycleSubmitFail_Rethrows(p) ==
    /\ pc[p] = "submit"
    /\ atCall' = [atCall EXCEPT ![p] = <<>>]
    /\ pc' = [pc EXCEPT ![p] = "idle"]
    /\ batch' = [batch EXCEPT ![p] = <<>>]
    /\ got' = [got EXCEPT ![p] = "none"]
    /\ calls' = [calls EXCEPT ![p] = 0]
    /\ missed' = [missed EXCEPT ![p] = {}]
    /\ UNCHANGED <<storeVars, dbReplace, http, now, formVars, homeVars,
                   pendingFarmers, k, res, wrote, rejected>>

\* cycleSubmitFail marking the submitted records failed: after a transport
\* failure the rows of the batch leave the pending state.
cycleSubmitFail_MarksFailed(p) ==
    /\ pc[p] = "submit"
    /\ atCall' = [atCall EXCEPT ![p] = <<>>]
    /\ farmers' = [i \in DOMAIN farmers |->
                     IF \E j \in DOMAIN batch[p] :
                           batch[p][j].temp_id = farmers[i].temp_id
                     THEN [farmers[i] EXCEPT !.sync_status = "failed"]
                     ELSE farmers[i]]
    /\ Return(p, CatchResult("transport error"))
    /\ UNCHANGED <<land_parcels, crops, dbReplace, http, now, formVars,
                   homeVars, got, calls, wrote, rejected>>

\* sync.js:91 and 112-119: syncFarmers rejects (timeout, no connection,
\* a status outside 2xx).
cycleSubmitFail(p) ==
    /\ pc[p] = "submit"
    /\ atCall' = [atCall EXCEPT ![p] = <<>>]
    /\ Return(p, CatchResult("transport error"))
    /\ UNCHANGED <<storeVars, dbReplace, http, now, formVars, homeVars, got,
                   calls, wrote, rejected>>

\* After outcome k: the next iteration, or the return of sync.js:104-110.
NextOutcome(p) ==
    IF k[p] = Len(batch[p])
    THEN \E result \in AggregatesFor(batch[p]) :
            Return(p, SuccessResult(result))
    ELSE /\ k' = [k EXCEPT ![p] = @ + 1]
         /\ Goto(p, "apply")
         /\ UNCHANGED <<pendingFarmers, batch>>

\* sync.js:94-102: one iteration of the loop over result.results.
cycleApply(p) ==
    /\ pc[p] = "apply"
    /\ \E syncResult \in OutcomesFor(batch[p][k[p]]) :
          IF syncResult.status = "created" \/ syncResult.status = "updated"
          THEN \E dbOk \in BOOLEAN :
                  IF dbOk
                  THEN /\ farmers' = updateSyncStatus(farmers,
                                         syncResult.temp_id, "synced",
                                         syncResult.farmer_id)
                       /\ wrote' = [wrote EXCEPT ![p] =
                                       @ \cup {syncResult.temp_id}]
                       /\ NextOutcome(p)
                       /\ UNCHANGED rejected
                  ELSE /\ Return(p, CatchResult("database error"))
                       /\ UNCHANGED <<farmers, wrote, rejected>>
          ELSE /\ rejected' = [rejected EXCEPT ![p] =
                                  @ \cup {syncResult.temp_id}]
               /\ NextOutcome(p)
               /\ UNCHANGED <<farmers, wrote>>
    /\ UNCHANGED <<land_parcels, crops, dbReplace, http, now, formVars,
                   homeVars, got, calls, atCall>>

\* The caller has used the returned value.
Forget(p) ==
    /\ pc' = [pc EXCEPT ![p] = "idle"]
    /\ res' = [res EXCEPT ![p] = NoResult]
    /\ got' = [got EXCEPT ![p] = "none"]
    /\ calls' = [calls EXCEPT ![p] = 0]
    /\ wrote' = [wrote EXCEPT ![p] = {}]
    /\ rejected' = [rejected EXCEPT ![p] = {}]
    /\ UNCHANGED <<pendingFarmers, batch, k, atCall, missed>>

\* handleSyncFinish with setSyncing(false) on the success branch instead of
\* in the finally block.
handleSyncFinish_NoFinally ==
    /\ pc["manual"] = "done"
    /\ syncing' = IF res["manual"].success THEN FALSE ELSE syncing
    /\ Forget("manual")
    /\ UNCHANGED <<storeVars, dbReplace, http, now, formVars>>

\* HomeScreen_backup.js:56-68: handleSync after syncPendingFarmers returned.
handleSyncFinish ==
    /\ pc["manual"] = "done"
    /\ syncing' = FALSE
    /\ Forget("manual")
    /\ UNCHANGED <<storeVars, dbReplace, http, now, formVars>>

\* sync.js:127-128: the timer callback ends.
autoSyncFinish ==
    /\ pc["auto"] = "done"
    /\ Forget("auto")
    /\ UNCHANGED <<storeVars, dbReplace, http, now, formVars, homeVars>>

Next ==
    \/ clockTick
    \/ handlePersonalInfoSubmit
    \/ handleLandDetailsSubmit
    \/ handleCropDetailsSubmit
    \/ leaveRegistration
    \/ handleSync
    \/ autoSyncTick
    \/ autoSyncProbe
    \/ \E p \in Procs : cycleCheck(p)
    \/ \E p \in Procs : cycleCollect(p)
    \/ \E p \in Procs : cyclePrepare(p)
    \/ \E p \in Procs : cycleSubmitOk(p)
    \/ \E p \in Procs : cycleSubmitFail(p)
    \/ \E p \in Procs : cycleApply(p)
    \/ handleSyncFinish
    \/ autoSyncFinish

Spec == Init /\ [][Next]_vars

\* ------------------------------------------------------ consecutive cycles
\* The registration form is used only while no cycle is running.
registerBetweenCycles ==
    /\ \A p \in Procs : pc[p] = "idle"
    /\ \/ handlePersonalInfoSubmit
       \/ handleLandDetailsSubmit
       \/ handleCropDetailsSubmit
       \/ leaveRegistration

\* Cycles are started by the Sync button only (setupAutoSync is exported by
\* sync.js but no module calls it), so one cycle ends before the next one
\* starts, and local writes happen between cycles.
NextConsecutive ==
    \/ clockTick
    \/ registerBetweenCycles
    \/ handleSync
    \/ \E p \in Procs : cycleCheck(p)
    \/ \E p \in Procs : cycleCollect(p)
    \/ \E p \in Procs : cyclePrepare(p)
    \/ \E p \in Procs : cycleSubmitOk(p)
    \/ \E p \in Procs : cycleSubmitFail(p)
    \/ \E p \in Procs : cycleApply(p)
    \/ handleSyncFinish

SpecConsecutive == Init /\ [][NextConsecutive]_vars

\* ------------------------------------------------------------- fair cycles
\* The step of the cycle did not end in the catch of sync.js:112-119.
NotCaught(p) == ~(pc'[p] = "done" /\ ~res'[p].success)

\* The user keeps pressing the Sync button and every started handler runs
\* on; again and again the probe finds connectivity, the local database
\* answers, the batch request gets a response, and for each submitted
\* record the remote answers created or updated.
FairCycles ==
    /\ WF_vars(handleSync)
    /\ WF_vars(handleSyncFinish)
    /\ SF_vars(cycleCheck("manual") /\ NotCaught("manual"))
    /\ SF_vars(cycleCollect("manual") /\ NotCaught("manual"))
    /\ SF_vars(cyclePrepare("manual") /\ NotCaught("manual"))
    /\ SF_vars(cycleSubmitOk("manual"))
    /\ \A t \in TempIds :
          SF_vars(cycleApply("manual") /\ t \in wrote'["manual"])

SpecFair == Init /\ [][NextConsecutive]_vars /\ FairCycles

\* ------------------------------------------------- building the payload
\* Stores for the payload: one or two farmers, at least one of them pending,
\* and children stored under them, as the registration form leaves them.
PayloadFarmers ==
    {fs \in UNION {[1..n -> [temp_id : TempIds, farmer_id : {Null},
                             sync_status : {"pending"},
                             first_name : Names]
                            \cup
                            [temp_id : TempIds, farmer_id : {1},
                             sync_status : {"synced"},
                             first_name : Names]] : n \in 1..2} :
        /\ \A i, j \in DOMAIN fs : fs[i].temp_id = fs[j].temp_id => i = j
        /\ Len(getPendingFarmers(fs)) > 0}

PayloadParcels(fs) ==
    {ps \in UNION {[1..n -> [temp_farmer_id : TempIds, parcel_id : TempIds]] :
                      n \in 0..MaxPayloadParcels} :
        \A i \in DOMAIN ps : HasTempId(fs, ps[i].temp_farmer_id)}

PayloadCrops(fs) ==
    {cs \in UNION {[1..n -> [temp_farmer_id : TempIds, crop_name : CropNames]] :
                      n \in 0..MaxPayloadCrops} :
        \A i \in DOMAIN cs : HasTempId(fs, cs[i].temp_farmer_id)}

\* A manual cycle stands at sync.js:36 with the pending list of the store.
InitPayload ==
    /\ farmers \in PayloadFarmers
    /\ land_parcels \in PayloadParcels(farmers)
    /\ crops \in PayloadCrops(farmers)
    /\ dbReplace = FALSE
    /\ now = 1
    /\ step = 1
    /\ tempId = Null
    /\ syncing = TRUE
    /\ pc = [p \in Procs |-> IF p = "manual" THEN "prepare" ELSE "idle"]
    /\ pendingFarmers = [p \in Procs |-> IF p = "manual"
                                         THEN getPendingFarmers(farmers)
                                         ELSE <<>>]
    /\ batch = [p \in Procs |-> <<>>]
    /\ k = [p \in Procs |-> 0]
    /\ res = [p \in Procs |-> NoResult]
    /\ got = [p \in Procs |-> IF p = "manual" THEN "nonempty" ELSE "none"]
    /\ calls = [p \in Procs |-> 0]
    /\ atCall = [p \in Procs |-> <<>>]
    /\ wrote = [p \in Procs |-> {}]
    /\ rejected = [p \in Procs |-> {}]
    /\ http = HttpIdle
    /\ missed = [p \in Procs |-> {}]

NextPayload == \E p \in Procs : cyclePrepare(p)

SpecPayload == InitPayload /\ [][NextPayload]_vars

\* ------------------------------------------------- one syncFarmers call
\* api.js:411-414: syncFarmers sends the batch request.
syncFarmersSend(p) ==
    /\ pc[p] = "submit"
    /\ http.state = "idle"
    /\ http' = [http EXCEPT !.stack = <<BatchRequest>>, !.state = "waiting"]
    /\ UNCHANGED <<storeVars, dbReplace, now, formVars, homeVars, cycleVars,
                   missed>>

\* The innermost request is answered and the response interceptor runs.
\* The remote answers 401 to at most MaxRefreshes refresh requests.
httpAnswer ==
    /\ http.state = "waiting"
    /\ \E answer \in HttpAnswers :
          /\ http.refreshes < MaxRefreshes \/ answer # "unauthorized"
                \/ ~InterceptorRefreshes(http, http.stack[Len(http.stack)])
          /\ http' = HttpRespond(http, answer)
    /\ UNCHANGED <<storeVars, dbReplace, now, formVars, homeVars, cycleVars,
                   missed>>

\* api.js:413 and sync.js:91: the promise of syncFarmers resolves.
syncFarmersResolves(p) ==
    /\ http.state = "resolved"
    /\ cycleSubmitOk(p)

\* sync.js:91 and 112-119: the promise of syncFarmers rejects.
syncFarmersRejects(p) ==
    /\ http.state = "rejected"
    /\ cycleSubmitFail(p)

\* A manual cycle stands at sync.js:91 with its payload built; either
\* revision of the response interceptor, with or without a refresh_token.
InitHttp ==
    /\ farmers \in PayloadFarmers
    /\ land_parcels = <<>>
    /\ crops = <<>>
    /\ dbReplace = FALSE
    /\ now = 1
    /\ step = 1
    /\ tempId = Null
    /\ syncing = TRUE
    /\ pc = [p \in Procs |-> IF p = "manual" THEN "submit" ELSE "idle"]
    /\ pendingFarmers = [p \in Procs |-> <<>>]
    /\ batch = [p \in Procs |->
                  IF p = "manual"
                  THEN [i \in DOMAIN getPendingFarmers(farmers) |->
                          FarmerPayload(getPendingFarmers(farmers)[i],
                                        land_parcels, crops)]
                  ELSE <<>>]
    /\ k = [p \in Procs |-> 0]
    /\ res = [p \in Procs |-> NoResult]
    /\ got = [p \in Procs |-> IF p = "manual" THEN "nonempty" ELSE "none"]
    /\ calls = [p \in Procs |-> IF p = "manual" THEN 1 ELSE 0]
    /\ atCall = [p \in Procs |-> IF p = "manual" THEN farmers ELSE <<>>]
    /\ wrote = [p \in Procs |-> {}]
    /\ rejected = [p \in Procs |-> {}]
    /\ http \in {[HttpIdle EXCEPT !.guard = g, !.token = t] :
                    g \in BOOLEAN, t \in BOOLEAN}
    /\ missed = [p \in Procs |-> {}]

NextHttp ==
    \/ syncFarmersSend("manual")
    \/ httpAnswer
    \/ syncFarmersResolves("manual")
    \/ syncFarmersRejects("manual")
    \/ cycleApply("manual")

SpecHttp == InitHttp /\ [][NextHttp]_vars

\* ---------------------------------------------- reading the pending list
\* Stores of up to MaxStoreFarmers farmers with distinct temp_ids, pending
\* or synced, in rowid order.
StoreFarmers ==
    {fs \in UNION {[1..n -> [temp_id : 1..MaxStoreFarmers, farmer_id : {Null},
                             sync_status : {"pending"},
                             first_name : Names]
                            \cup
                            [temp_id : 1..MaxStoreFarmers, farmer_id : {1},
                             sync_status : {"synced"},
                             first_name : Names]] :
                      n \in 0..MaxStoreFarmers} :
        \A i, j \in DOMAIN fs : fs[i].temp_id = fs[j].temp_id => i = j}

\* Both triggers stand at sync.js:26, about to read the pending list.
InitListPending ==
    /\ farmers \in StoreFarmers
    /\ land_parcels = <<>>
    /\ crops = <<>>
    /\ dbReplace = FALSE
    /\ now = 1
    /\ step = 1
    /\ tempId = Null
    /\ syncing = TRUE
    /\ pc = [p \in Procs |-> "collect"]
    /\ pendingFarmers = [p \in Procs |-> <<>>]
    /\ batch = [p \in Procs |-> <<>>]
    /\ k = [p \in Procs |-> 0]
    /\ res = [p \in Procs |-> NoResult]
    /\ got = [p \in Procs |-> "none"]
    /\ calls = [p \in Procs |-> 0]
    /\ atCall = [p \in Procs |-> <<>>]
    /\ wrote = [p \in Procs |-> {}]
    /\ rejected = [p \in Procs |-> {}]
    /\ http = HttpIdle
    /\ missed = [p \in Procs |-> {}]

NextListPending == \E p \in Procs : cycleCollect(p)

SpecListPending == InitListPending /\ [][NextListPending]_vars

\* ================================================================ claims

\* C1. Mutual exclusion of sync cycles: no two calls of syncFarmers are
\* outstanding at the same time (a trigger that finds a cycle in flight is
\* answered "skipped" and submits nothing).
C1_MutualExclusion ==
    \A p, q \in Procs :
        (pc[p] = "submit" /\ pc[q] = "submit") => p = q

\* C2. No record is submitted after it reaches synced: a batch handed to
\* syncFarmers holds no temp_id whose row is synced at the time of the call.
C2_NoSubmitAfterSynced ==
    [][\A p \in Procs :
          (pc[p] = "prepare" /\ pc'[p] = "submit") =>
             \A i \in DOMAIN batch'[p] :
                 ~IsSynced(farmers, batch'[p][i].temp_id)]_vars

\* C3. All-or-nothing on transport failure: when a cycle whose syncFarmers
\* call rejected returns, every farmers row that existed when the call was
\* made has the sync_status and the farmer_id it had then.
C3_TransportFailureChangesNothing ==
    [][\A p \in Procs :
          (pc[p] = "submit" /\ pc'[p] = "done"
              /\ res'[p] = CatchResult("transport error")) =>
             \A i \in DOMAIN atCall[p] :
                 /\ HasTempId(farmers', atCall[p][i].temp_id)
                 /\ RowOf(farmers', atCall[p][i].temp_id).sync_status
                       = atCall[p][i].sync_status
                 /\ RowOf(farmers', atCall[p][i].temp_id).farmer_id
                       = atCall[p][i].farmer_id]_vars

\* C4. Partial-failure isolation: when a cycle has returned success, every
\* record whose outcome was error is marked failed.
C4_RejectedAreFailed ==
    \A p \in Procs :
        (pc[p] = "done" /\ res[p].success) =>
            \A t \in rejected[p] :
                HasTempId(farmers, t) => RowOf(farmers, t).sync_status = "failed"

\* C5. Exactly one permanent identifier per temporary identifier: once a
\* row has a farmer_id, no step changes or clears it.
C5_PermIdNeverChanges ==
    [][\A t \in TempIds :
          HasPermId(farmers, t) =>
             /\ HasTempId(farmers', t)
             /\ RowOf(farmers', t).farmer_id = RowOf(farmers, t).farmer_id]_vars

\* C6. No double identifier binding at the store: on a row that is synced
\* with a permanent identifier, updateSyncStatus with a different identifier
\* leaves the bound identifier in place.
C6_NoDoubleBinding ==
    \A i \in DOMAIN farmers : \A p2 \in PermIds :
        (farmers[i].sync_status = "synced" /\ farmers[i].farmer_id # Null
            /\ p2 # farmers[i].farmer_id) =>
           updateSyncStatus(farmers, farmers[i].temp_id, "synced", p2)[i].farmer_id
              = farmers[i].farmer_id

\* C7. synced is terminal: a record that is synced stays synced under every
\* step (updateSyncStatus, insertFarmer with an existing temp_id, a cycle).
C7_SyncedIsTerminal ==
    [][\A t \in TempIds : IsSynced(farmers, t) => IsSynced(farmers', t)]_vars

\* C8. Children are submitted together with their parent: the payload entry
\* that makes a farmer synced lists every land parcel and crop stored under
\* its temp_id, and no child is stored under a farmer that is synced.
C8_ChildrenTravelWithParent ==
    [][/\ \A p \in Procs : \A t \in wrote'[p] \ wrote[p] :
             /\ batch[p][k[p]].land_parcels =
                   ParcelPayloads(getLandParcels(land_parcels, t))
             /\ batch[p][k[p]].current_crops =
                   CropPayloads(getCrops(crops, t))
       /\ (land_parcels' # land_parcels \/ crops' # crops) =>
             ~IsSynced(farmers, tempId)]_vars

\* C9. The cycle-in-progress flag is released on every exit path: whenever
\* handleSync is not running, syncing is false and the Sync button starts a
\* cycle again.
C9_FlagReleased ==
    pc["manual"] = "idle" => (~syncing /\ ENABLED handleSync)

\* A manual cycle has ended with a failure and handleSync still holds the flag.
C9_Witness ==
    /\ pc["manual"] = "done"
    /\ ~res["manual"].success
    /\ syncing

\* C10. Empty-pending short-circuit: a cycle whose getPendingFarmers
\* returned no row has returned {success: true, synced: 0} at once and has
\* not called syncFarmers.
C10_EmptyPendingShortCircuit ==
    \A p \in Procs :
        got[p] = "empty" =>
            /\ pc[p] = "done"
            /\ res[p].success /\ res[p].synced = 0
            /\ calls[p] = 0

\* A cycle found connectivity and an empty pending list in a table whose
\* rows are all synced, and has returned.
C10_Witness ==
    \E p \in Procs :
        /\ got[p] = "empty"
        /\ pc[p] = "done"
        /\ res[p] = EmptyResult
        /\ Len(farmers) > 0
        /\ Len(getPendingFarmers(farmers)) = 0

\* C11. No-connectivity abort: a cycle whose probe reported unreachable has
\* ended with a failure result, has made no syncFarmers call and has updated
\* no farmers row; the step that ends it leaves the farmers table as it was.
C11_NoConnectivityAbort ==
    [][\A p \in Procs :
          got'[p] = "unreachable" =>
             /\ pc'[p] = "done"
             /\ res'[p] = CatchResult("No internet connection")
             /\ calls'[p] = 0
             /\ wrote'[p] = {}
             /\ (got[p] # "unreachable" => farmers' = farmers)]_vars

\* A cycle was aborted by the probe while a farmer was pending.
C11_Witness ==
    \E p \in Procs :
        /\ got[p] = "unreachable"
        /\ pc[p] = "done"
        /\ Len(getPendingFarmers(farmers)) > 0

\* C12. No exception crosses to the caller: every step that ends a call of
\* syncPendingFarmers returns a result record, and when the call failed
\* (a throwing connectivity check, an unreachable network, a throwing store
\* read or write, a throwing remote call) the record is
\* {success: false, message, synced: 0}.
C12_NoExceptionCrosses ==
    [][\A p \in Procs :
          (/\ pc[p] \in {"check", "collect", "prepare", "submit", "apply"}
           /\ pc'[p] \notin {"check", "collect", "prepare", "submit", "apply"})
          => /\ pc'[p] = "done"
             /\ res'[p] # NoResult
             /\ res'[p].success \in BOOLEAN
             /\ ~res'[p].success =>
                   res'[p] \in {CatchResult(m) :
                                  m \in {"network state error",
                                         "No internet connection",
                                         "database error",
                                         "transport error"}}]_vars

\* One call has returned the failure of a throwing store operation while
\* the other has returned the failure of a throwing remote call.
C12_Witness ==
    /\ pc["manual"] = "done"
    /\ res["manual"] = CatchResult("database error")
    /\ pc["auto"] = "done"
    /\ res["auto"] = CatchResult("transport error")

\* C13. Per-record rejections do not fail the cycle: a cycle that received
\* an error outcome returns success: true with an errors list that holds
\* the message of every error outcome it received.
C13_RejectionsAreListed ==
    \A p \in Procs :
        (pc[p] = "done" /\ rejected[p] # {}) =>
            /\ res[p].success
            /\ res[p].errors # Null
            /\ rejected[p] \subseteq res[p].errors

C15_ChildNesting ==
    [][\A p \in Procs :
          (pc[p] = "prepare" /\ pc'[p] = "submit") =>
             \A i \in DOMAIN batch'[p] :
                LET t == batch'[p][i].temp_id
                    own == {n \in DOMAIN land_parcels :
                               land_parcels[n].temp_farmer_id = t}
                    ownCrops == {n \in DOMAIN crops :
                                    crops[n].temp_farmer_id = t}
                    sent == batch'[p][i].land_parcels
                    sentCrops == batch'[p][i].current_crops
                IN  /\ Len(sent) = Cardinality(own)
                    /\ {sent[j].parcel_id : j \in DOMAIN sent}
                          = {land_parcels[n].parcel_id : n \in own}
                    /\ Len(sentCrops) = Cardinality(ownCrops)
                    /\ {sentCrops[j].crop_name : j \in DOMAIN sentCrops}
                          = {crops[n].crop_name : n \in ownCrops}]_vars

\* A payload of two farmers was submitted: one with two parcels and one
\* crop, the other with a parcel and a crop of its own.
C15_Witness ==
    /\ pc["manual"] = "submit"
    /\ Len(batch["manual"]) = 2
    /\ \E i, j \in DOMAIN batch["manual"] :
          /\ i # j
          /\ Len(batch["manual"][i].land_parcels) = 2
          /\ Len(batch["manual"][i].current_crops) = 1
          /\ Len(batch["manual"][j].land_parcels) = 1
          /\ Len(batch["manual"][j].current_crops) = 1

\* C16. insertLandParcel and insertCrop with a temp_id that matches no
\* farmer row fail and leave the tables unchanged, and every stored child
\* references an existing farmer.
C16_ForeignKeyEnforced ==
    /\ \A t \in TempIds :
          ~HasTempId(farmers, t) =>
             /\ insertLandParcel(land_parcels, t, [parcel_id |-> now])
                   = land_parcels
             /\ \A c \in CropNames :
                   insertCrop(crops, t, [crop_name |-> c]) = crops
    /\ \A i \in DOMAIN land_parcels :
          HasTempId(farmers, land_parcels[i].temp_farmer_id)
    /\ \A i \in DOMAIN crops :
          HasTempId(farmers, crops[i].temp_farmer_id)

\* C17. Temporary identifiers are never reused: every submission of the
\* personal-information step stores a new row under a temp_id that no row
\* had before, and leaves every existing row as it was.
C17_TempIdsNeverReused ==
    [][handlePersonalInfoSubmit =>
          /\ ~HasTempId(farmers, tempId')
          /\ HasTempId(farmers', tempId')
          /\ Len(farmers') = Len(farmers) + 1
          /\ \A i \in DOMAIN farmers : farmers'[i] = farmers[i]]_vars

\* C18. A failed record is retried: a record that is marked failed is in
\* the list getPendingFarmers returns to the next cycle.
C18_FailedIsRetried ==
    \A i \in DOMAIN farmers :
        farmers[i].sync_status = "pending" =>
            LET t == farmers[i].temp_id
                marked == updateSyncStatus(farmers, t, "failed",
                                           farmers[i].farmer_id)
                listed == getPendingFarmers(marked)
            IN  \E j \in DOMAIN listed : listed[j].temp_id = t

\* C19. Idempotent re-sync: with cycles run one after the other and local
\* writes only between them, a cycle submits exactly the records that the
\* cycles before it left unresolved (every stored record that is not
\* synced), and a cycle that finds every record synced ends without a
\* submission.
C19_IdempotentResync ==
    [][\A p \in Procs :
          /\ (pc[p] = "prepare" /\ pc'[p] = "submit") =>
                 {batch'[p][i].temp_id : i \in DOMAIN batch'[p]}
                    = {farmers[i].temp_id :
                          i \in {n \in DOMAIN farmers :
                                    farmers[n].sync_status # "synced"}}
          /\ (/\ pc[p] = "collect" /\ pc'[p] # "collect"
              /\ \A i \in DOMAIN farmers : farmers[i].sync_status = "synced")
             => (pc'[p] = "done" /\ calls'[p] = 0)]_vars

\* The older of two records is still pending after the cycle that synced
\* the younger one, and a later cycle is submitting exactly that record.
C19_Witness ==
    /\ Len(farmers) = 2
    /\ farmers[1].sync_status = "pending"
    /\ farmers[2].sync_status = "synced"
    /\ pc["manual"] = "submit"
    /\ Len(batch["manual"]) = 1
    /\ batch["manual"][1].temp_id = farmers[1].temp_id

\* C20. The connectivity prober always yields a boolean and never
\* propagates an exception: whenever a caller (the timer callback of
\* setupAutoSync, or a cycle) awaits checkConnectivity(), what it gets is
\* true or false, whatever the network-state query does.
C20_ProberIsBoolean ==
    \A p \in Procs :
        pc[p] \in {"tick", "check"} =>
            \A outcome \in ProbeOutcomes : outcome \in {"true", "false"}

C22_StatsAreCounts ==
    LET stats == getAllFarmersWithStats(farmers)
    IN  /\ stats.total = Len(farmers)
        /\ stats.pending = Cardinality({i \in DOMAIN farmers :
                                 farmers[i].sync_status = "pending"})
        /\ stats.synced = Cardinality({i \in DOMAIN farmers :
                                farmers[i].sync_status = "synced"})

\* A step of the cycle of trigger p: the code of syncPendingFarmers between
\* two awaits.
CycleStep(p) ==
    /\ pc[p] \in {"check", "collect", "prepare", "submit", "apply"}
    /\ pc'[p] # pc[p] \/ k'[p] # k[p]

\* C23. No step of a sync cycle deletes, adds or rewrites data: the child
\* tables and the rows of the farmers table with their payload fields stay
\* as they are, and a farmer row changes (in sync status and permanent id
\* only) only if it is the record named by the outcome being applied.
C23_CycleFrame ==
    [][\A p \in Procs :
          CycleStep(p) =>
             /\ land_parcels' = land_parcels
             /\ crops' = crops
             /\ Len(farmers') = Len(farmers)
             /\ \A i \in DOMAIN farmers :
                   /\ farmers'[i].temp_id = farmers[i].temp_id
                   /\ farmers'[i].first_name = farmers[i].first_name
                   /\ farmers'[i] # farmers[i] =>
                         /\ pc[p] = "apply"
                         /\ farmers[i].temp_id = batch[p][k[p]].temp_id]_vars

\* A cycle has marked one record while another record of the store, not
\* named by any outcome applied so far, is still pending.
C23_Witness ==
    \E p \in Procs :
       /\ pc[p] \in {"apply", "done"}
       /\ Cardinality(wrote[p]) = 1
       /\ Len(farmers) = 2
       /\ \E i, j \in DOMAIN farmers :
             /\ farmers[i].temp_id \in wrote[p]
             /\ farmers[i].sync_status = "synced"
             /\ farmers[j].temp_id \notin wrote[p]
             /\ farmers[j].sync_status = "pending"

\* C24. In every reachable state a farmer row whose sync status is synced
\* holds a permanent identifier: its farmer_id is not null.
C24_SyncedHasPermanentId ==
    \A i \in DOMAIN farmers :
       farmers[i].sync_status = "synced" => farmers[i].farmer_id # Null

\* C25. In every success result of a cycle that submitted a batch, synced
\* is the number of records the cycle marked synced and failed is the
\* number of error outcomes of the response.
C25_AggregateMatchesApplied ==
    \A p \in Procs :
       (pc[p] = "done" /\ res[p].success /\ got[p] = "nonempty") =>
          /\ res[p].synced = Cardinality(wrote[p])
          /\ res[p].failed = Cardinality(rejected[p])

\* C26. When the status update of one outcome throws, the loop goes on:
\* the cycle returns only after the last outcome of the response.
C26_ApplyGoesOnAfterFailure ==
    [][\A p \in Procs :
          (pc[p] = "apply" /\ pc'[p] = "done") => k[p] = Len(batch[p])]_vars

\* C28. A cycle that returns success: false has changed the sync status or
\* the permanent identifier of no record.
C28_FailedCycleChangesNothing ==
    \A p \in Procs :
       (pc[p] = "done" /\ ~res[p].success) => wrote[p] = {}

\* C29. With the response interceptor that carries the _retry flag, a 401
\* answer to the refresh request does not start another refresh: while a
\* refresh request is awaiting its answer no further request to
\* /api/auth/refresh is sent.
C29_RefreshIsNotRefreshed ==
    [][(/\ http.guard
        /\ http.state = "waiting"
        /\ http.stack[Len(http.stack)].url = "/api/auth/refresh")
          => http'.refreshes = http.refreshes]_vars

C27_EventuallySynced ==
    \A t \in TempIds : HasTempId(farmers, t) ~> IsSynced(farmers, t)

\* Two farmers are stored and both are synced, the second by the cycle that
\* has just returned.
C27_Witness ==
    /\ Len(farmers) = 2
    /\ \A i \in DOMAIN farmers : farmers[i].sync_status = "synced"
    /\ pc["manual"] = "done"
    /\ Cardinality(wrote["manual"]) = 1

====
